---------------------------- MODULE Spec2Model ----------------------------
(***************************************************************************)
(* Log forwarding of the invoker agent (package main):                     *)
(*   ForwardLogsFromUserAction -> logScan -> logSinkChannel -> logWriter   *)
(*                                                                         *)
(* Strings are sequences of one-character strings, so that len(), slicing  *)
(* and strings.Contains are computed as the Go code computes them.  A      *)
(* container log file is its byte sequence; offsets are byte offsets.      *)
(* Lengths are scaled: the sentinel text is one symbol long and a content  *)
(* line is two symbols long.                                               *)
(***************************************************************************)
EXTENDS Integers, Sequences, FiniteSets, TLC

\* ------------------------------------------------------------------ bounds
MaxLines == 3        \* lines in a container log file
MaxRequests == 2     \* requests one handler goroutine serves
MaxTime == 1         \* the clock runs from 0 to MaxTime (milliseconds)
SmallLimit == 3      \* a sizeLimit the content can exceed
BigLimit == 100      \* a sizeLimit the content cannot exceed
SmallSink == 4       \* a LogSinkSize a few lines exceed
BigSink == 1000      \* a LogSinkSize the model's output never exceeds

Procs == {1, 2}                 \* concurrent request handler goroutines
Containers == {"c1", "c2"}      \* values of vars["container"]
NoFile == <<"ENOENT">>          \* the log file of a container that has none
Nil == -1                       \* sinkFile == nil

\* ------------------------------------------------------- string constants
NL == "\n"
logSentinelLine == <<"X">>
truncatedLogMessage(limit) == <<"truncated", ToString(limit)>>
genericLogErrorMessage == <<"issue">>

\* ------------------------------------------------------------ pure helpers
Min(a, b) == IF a < b THEN a ELSE b

\* strings.Contains(s, sub)
Contains(s, sub) ==
    \E i \in 0..(Len(s) - Len(sub)) : SubSeq(s, i + 1, i + Len(sub)) = sub

RECURSIVE Join(_)
\* the bytes of a file whose lines are ls, each ended by a newline
Join(ls) == IF ls = <<>> THEN <<>> ELSE Head(ls) \o <<NL>> \o Join(Tail(ls))

RECURSIVE Flatten(_)
Flatten(ss) == IF ss = <<>> THEN <<>> ELSE Head(ss) \o Flatten(Tail(ss))

SeqsUpTo(S, n) == UNION {[1..k -> S] : k \in 0..n}

\* faulty variant: the line is not cut before the metadata is appended
mungedLine_NotCut(logLine, metadata) ==
    logLine \o <<",">> \o metadata \o <<"}">>

\* fmt.Sprintf("%s,%s}", logLine[:logLineLen-1], lfi.EncodedLogLineMetadata)
\* (the caller guards logLineLen > 0: logLine[:-1] panics)
mungedLine(logLine, metadata) ==
    SubSeq(logLine, 1, Len(logLine) - 1) \o <<",">> \o metadata \o <<"}">>

\* time.Now().UTC().Format(time.RFC3339) at t milliseconds: whole seconds
RFC3339(t) == ToString(t \div 1000)

\* the line writeSyntheticLogLine builds at time t
syntheticLine(msg, t, metadata) ==
    <<"{", "log:">> \o msg \o <<"stderr", "time:", RFC3339(t), ",">>
        \o metadata \o <<"}">>

\* ---------------------------------------------------------- bufio.Scanner
\* The scanner of a file f holds the bytes f[start+1 .. fpos]: fpos is the
\* offset of the os.File (everything before it was read into the buffer) and
\* start the offset of the first byte no token has consumed.
Buffered(f, start, fpos) == SubSeq(f, start + 1, Min(fpos, Len(f)))

\* bufio.ScanLines: the offset of the first newline in the buffer, 0 if none
NewlineAt(f, start, fpos) ==
    LET idx == {i \in (start + 1)..Min(fpos, Len(f)) : f[i] = NL}
    IN  IF idx = {} THEN 0 ELSE CHOOSE i \in idx : \A j \in idx : i <= j

\* Scan() can return a token without reading: a full line is buffered, or
\* the reader is at EOF and a final unterminated line is buffered
HasToken(f, start, fpos, eof) ==
    \/ NewlineAt(f, start, fpos) # 0
    \/ eof /\ Buffered(f, start, fpos) # <<>>

\* scanner.Text() of that token, and the start offset after it
TokenText(f, start, fpos) ==
    LET i == NewlineAt(f, start, fpos)
    IN  IF i # 0 THEN SubSeq(f, start + 1, i - 1) ELSE Buffered(f, start, fpos)

TokenEnd(f, start, fpos) ==
    LET i == NewlineAt(f, start, fpos)
    IN  IF i # 0 THEN i ELSE Min(fpos, Len(f))

\* Scan() returns false: EOF seen and nothing buffered
Exhausted(f, start, fpos, eof) == eof /\ ~HasToken(f, start, fpos, eof)

\* ------------------------------------------------------------ input sets
ContentA == <<"{", "}">>
EmptyLine == <<>>
LogLines == {ContentA, logSentinelLine, EmptyLine}
LogFiles == {Join(ls) : ls \in SeqsUpTo(LogLines, MaxLines)}
\* a line as the container runtime writes it: the marker text inside a record
WrappedSentinel == <<"{", "X", "}">>
SentinelFiles ==
    {Join(ls) : ls \in SeqsUpTo(LogLines \cup {WrappedSentinel}, MaxLines)}
MaxFileLen == 3 * MaxLines

SizeLimits == {SmallLimit, BigLimit}
Metadatas == {<<>>, <<"m">>}
\* encodedActivation of the k-th request of handler p
Activation(p, k) == <<"A", ToString(p), ToString(k)>>

\* ------------------------------------------------------------------ state
VARIABLES
    logs,       \* container -> bytes of ContainerDir/<c>/<c>-json.log, or NoFile
    config,     \* *Config: [LogSinkSize]
    dom,        \* the values a request's LogForwardInfo is drawn from
    budget,     \* handler -> requests it still serves
    now,        \* time.Now() in milliseconds
    sc,         \* handler -> state of its ForwardLogsFromUserAction / logScan call
    hist,       \* handler -> the requests it has completed, oldest first
    rejected,   \* handler -> the requests it answered 400, oldest first
    wpc,        \* logWriter: "recv", "create" or "write"
    line,       \* logWriter: line
    sinkFile,   \* logWriter: name (timestamp) of the open sink file, or Nil
    sinkFileBytes,  \* logWriter: sinkFileBytes
    openSinks,  \* sink files the process holds open (os.Create less Close)
    sinkDir,    \* OutputLogDir: sequence of [name, lines], in creation order
    accepted,   \* every line logSinkChannel delivered, in order
    crashed     \* the process died in a panic of logWriter

vars == <<logs, config, dom, budget, now, sc, hist, rejected, wpc, line, sinkFile,
          sinkFileBytes, openSinks, sinkDir, accepted, crashed>>

NoLfi == [LastOffset |-> 0, SizeLimit |-> 0, SentinelledLogs |-> FALSE,
          EncodedLogLineMetadata |-> <<>>, EncodedActivation |-> <<>>]

Idle == [pc |-> "idle", container |-> "c1", lfi |-> NoLfi, fpos |-> 0,
         start |-> 0, eof |-> FALSE, sentinelsLeft |-> 0, bytesWritten |-> 0,
         out |-> <<>>, pushed |-> <<>>]

\* the offsets a request may carry: the offset the previous call returned, when
\* the previous call of this handler succeeded on the same container
\* ("to be used in a subsequent call"), otherwise any offset of the domain
OffsetChoices(p, c) ==
    IF hist[p] # <<>> /\ hist[p][Len(hist[p])].code = 200
                      /\ hist[p][Len(hist[p])].container = c
    THEN {hist[p][Len(hist[p])].offset}
    ELSE {o \in dom.offsets : logs[c] = NoFile \/ o <= Len(logs[c]) + 1}

\* ------------------------------------------------------- request handlers
\* the bodies of a request: JSON with the fields of LogForwardInfo, bytes
\* that are not JSON, and a body that cannot be read
Bodies == {"json", "notJson", "unreadable"}

\* var lfi *LogForwardInfo
NilLfi == "nil"
NoError == "nil"

\* json.Unmarshal(b, v): the syntax of b is checked first; then v must be a
\* pointer that is not nil for the value to be stored
Unmarshal(b, v) ==
    IF b = "notJson" THEN "SyntaxError"
    ELSE IF v = NilLfi THEN "InvalidUnmarshalError"
    ELSE NoError

\* parseLogForwardInfo: the error it returns for a body
parseLogForwardInfo(body) ==
    IF body = "unreadable" THEN "Error reading request body"
    ELSE IF Unmarshal(body, NilLfi) # NoError
    THEN "Error unmarshalling request body"
    ELSE NoError

\* ForwardLogsFromUserAction for a request whose body parseLogForwardInfo
\* rejects: reportLoggingError(w, 400, err.Error(), "") writes the status and,
\* the metadata being empty, no line; logScan is not called
ForwardLogsFromUserAction_BadRequest(p) ==
    /\ ~crashed /\ sc[p].pc = "idle" /\ budget[p] > 0
    /\ \E body \in Bodies :
          /\ parseLogForwardInfo(body) # NoError
          /\ rejected' = [rejected EXCEPT ![p] =
                             Append(@, [body |-> body, code |-> 400])]
    /\ budget' = [budget EXCEPT ![p] = @ - 1]
    /\ UNCHANGED <<logs, config, dom, now, sc, hist, wpc, line, sinkFile,
                   sinkFileBytes, openSinks, sinkDir, accepted, crashed>>

\* ForwardLogsFromUserAction from the call of logScan on, for a cursor lfi:
\* the handler as it goes on once parseLogForwardInfo has returned a cursor
ForwardLogsFromUserAction(p) ==
    /\ ~crashed /\ sc[p].pc = "idle" /\ budget[p] > 0
    /\ \E c \in dom.containers, lim \in dom.limits, sen \in dom.sentinelled,
          md \in dom.metadatas :
         \E off \in OffsetChoices(p, c) :
           sc' = [sc EXCEPT ![p] = [Idle EXCEPT
                    !.pc = "open", !.container = c,
                    !.lfi = [LastOffset |-> off, SizeLimit |-> lim,
                             SentinelledLogs |-> sen,
                             EncodedLogLineMetadata |-> md,
                             EncodedActivation |->
                                 Activation(p, Len(hist[p]) + 1)]]]
    /\ budget' = [budget EXCEPT ![p] = @ - 1]
    /\ UNCHANGED <<logs, rejected, config, dom, now, hist, wpc, line, sinkFile,
                   sinkFileBytes, openSinks, sinkDir, accepted, crashed>>

\* faulty variant: the file is read from its beginning, whatever the offset asked for
SeekStart_Rewinds(lastOffset) == 0

\* logFile.Seek(lfi.LastOffset, 0): the offset of the file after it
SeekStart(lastOffset) == lastOffset

\* faulty variant: the error of os.Open is not looked at
OpenFails_Ignored(file) == FALSE

\* os.Open(logFileName) returns an error
OpenFails(file) == file = NoFile

\* logScan: os.Open and Seek(lfi.LastOffset, 0).  Open fails when the file
\* does not exist; lseek fails for a negative offset and succeeds for every
\* other one, also beyond the end of the file.
logScan_Open(p) ==
    /\ ~crashed /\ sc[p].pc = "open"
    /\ sc' = [sc EXCEPT ![p] =
                IF OpenFails(logs[sc[p].container]) \/ sc[p].lfi.LastOffset < 0
                THEN [@ EXCEPT !.pc = "report"]
                ELSE [@ EXCEPT !.pc = "loop",
                               !.fpos = SeekStart(sc[p].lfi.LastOffset),
                               !.start = SeekStart(sc[p].lfi.LastOffset),
                               !.sentinelsLeft = 2,
                               !.bytesWritten = 0]]
    /\ UNCHANGED <<logs, rejected, config, dom, budget, now, hist, wpc, line, sinkFile,
                   sinkFileBytes, openSinks, sinkDir, accepted, crashed>>

\* scanner.Scan() needs more bytes: one Read of the file, which returns some
\* of the remaining bytes, or EOF when none remain
logScan_Read(p) ==
    LET f == logs[sc[p].container]
        s == sc[p]
    IN  /\ ~crashed /\ s.pc = "loop" /\ s.sentinelsLeft > 0
        /\ ~s.eof /\ ~HasToken(f, s.start, s.fpos, s.eof)
        /\ IF s.fpos >= Len(f)
           THEN sc' = [sc EXCEPT ![p].eof = TRUE]
           ELSE \E n \in 1..(Len(f) - s.fpos) :
                    sc' = [sc EXCEPT ![p].fpos = s.fpos + n]
        /\ UNCHANGED <<logs, rejected, config, dom, budget, now, hist, wpc, line,
                       sinkFile, sinkFileBytes, openSinks, sinkDir, accepted, crashed>>

\* faulty variant: only a line that is the marker text is a sentinel
IsSentinel_Exact(lfi, logLine) ==
    lfi.SentinelledLogs /\ logLine = logSentinelLine

\* is logLine a sentinel for this request
IsSentinel(lfi, logLine) ==
    lfi.SentinelledLogs /\ Contains(logLine, logSentinelLine)

\* the loop body up to the send of the munged line
logScan_Line(p) ==
    LET f == logs[sc[p].container]
        s == sc[p]
        logLine == TokenText(f, s.start, s.fpos)
        next == TokenEnd(f, s.start, s.fpos)
    IN  /\ ~crashed /\ s.pc = "loop" /\ s.sentinelsLeft > 0
        /\ HasToken(f, s.start, s.fpos, s.eof)
        /\ sc' = [sc EXCEPT ![p] =
                    IF IsSentinel(s.lfi, logLine)
                    THEN [@ EXCEPT !.start = next,
                                   !.sentinelsLeft = s.sentinelsLeft - 1]
                    ELSE IF Len(logLine) = 0
                    THEN [@ EXCEPT !.pc = "panic", !.start = next]
                    ELSE [@ EXCEPT !.pc = "sendLine", !.start = next,
                                   !.bytesWritten = s.bytesWritten + Len(logLine),
                                   !.out = mungedLine(logLine,
                                              s.lfi.EncodedLogLineMetadata)]]
        /\ UNCHANGED <<logs, rejected, config, dom, budget, now, hist, wpc, line,
                       sinkFile, sinkFileBytes, openSinks, sinkDir, accepted, crashed>>

\* faulty variant: the file is created again for every line
NeedsCreate_Always(file) == TRUE

\* sinkFile == nil
NeedsCreate(file) == file = Nil

\* a send on logSinkChannel meets the receive of logWriter (the channel is
\* unbuffered): the line is handed over and both sides go on
Handover(p) ==
    /\ ~crashed /\ wpc = "recv"
    /\ line' = sc[p].out
    /\ accepted' = Append(accepted, sc[p].out)
    /\ wpc' = IF NeedsCreate(sinkFile) THEN "create" ELSE "write"
    /\ UNCHANGED <<logs, rejected, config, dom, budget, now, sinkFile,
                   sinkFileBytes, openSinks, sinkDir, crashed>>

Pushed(s, kind) == Append(s.pushed, [kind |-> kind, line |-> s.out])

\* faulty variant: the limit itself already truncates
Truncates_AtLimit(bytesWritten, limit) == bytesWritten >= limit

\* bytesWritten > lfi.SizeLimit
Truncates(bytesWritten, limit) == bytesWritten > limit

\* faulty variant: the seek to the end is left out
SeekEnd_Skipped(f, fpos) == fpos

\* logFile.Seek(0, 2): the offset of the file after it
SeekEnd(f, fpos) == Len(f)

\* l.logSinkChannel <- mungedLine, and the size check after it
logScan_SendLine(p) ==
    LET s == sc[p]
    IN  /\ s.pc = "sendLine"
        /\ Handover(p) /\ UNCHANGED hist
        /\ sc' = [sc EXCEPT ![p] =
                    IF Truncates(s.bytesWritten, s.lfi.SizeLimit)
                    THEN [@ EXCEPT !.pc = "sendTruncated",
                                   !.pushed = Pushed(s, "content"),
                                   !.out = syntheticLine(
                                       truncatedLogMessage(s.lfi.SizeLimit),
                                       now, s.lfi.EncodedLogLineMetadata)]
                    ELSE [@ EXCEPT !.pc = "loop",
                                   !.pushed = Pushed(s, "content"),
                                   !.out = <<>>]]

\* writeSyntheticLogLine of the truncation notice, logFile.Seek(0, 2),
\* sentinelsLeft = 0
logScan_SendTruncated(p) ==
    LET s == sc[p]
    IN  /\ s.pc = "sendTruncated"
        /\ Handover(p) /\ UNCHANGED hist
        /\ sc' = [sc EXCEPT ![p] =
                    [@ EXCEPT !.pc = "loop",
                              !.pushed = Pushed(s, "truncated"),
                              !.out = <<>>,
                              !.fpos = SeekEnd(logs[s.container], s.fpos),
                              !.sentinelsLeft = 0]]

\* faulty variant: one sentinel is taken for the end of the activation
MissingSentinels_OneIsEnough(lfi, sentinelsLeft) ==
    lfi.SentinelledLogs /\ sentinelsLeft = 2

\* lfi.SentinelledLogs && sentinelsLeft != 0
MissingSentinels(lfi, sentinelsLeft) ==
    lfi.SentinelledLogs /\ sentinelsLeft # 0

\* the loop has ended: the sentinel check after it
logScan_AfterLoop(p) ==
    LET f == logs[sc[p].container]
        s == sc[p]
    IN  /\ ~crashed /\ s.pc = "loop"
        /\ s.sentinelsLeft = 0 \/ Exhausted(f, s.start, s.fpos, s.eof)
        /\ sc' = [sc EXCEPT ![p] =
                    IF MissingSentinels(s.lfi, s.sentinelsLeft)
                    THEN [@ EXCEPT !.pc = "report"]
                    ELSE [@ EXCEPT !.pc = "sendActivation",
                                   !.out = s.lfi.EncodedActivation]]
        /\ UNCHANGED <<logs, rejected, config, dom, budget, now, hist, wpc, line,
                       sinkFile, sinkFileBytes, openSinks, sinkDir, accepted, crashed>>

\* l.logSinkChannel <- lfi.EncodedActivation in logScan
logScan_SendActivation(p) ==
    LET s == sc[p]
    IN  /\ s.pc = "sendActivation"
        /\ Handover(p) /\ UNCHANGED hist
        /\ sc' = [sc EXCEPT ![p] =
                    [@ EXCEPT !.pc = "tell",
                              !.pushed = Pushed(s, "activation"),
                              !.out = <<>>]]

\* the request is over: its record goes to the history
Finish(p, code, offset) ==
    /\ hist' = [hist EXCEPT ![p] = Append(@,
                  [container |-> sc[p].container, lfi |-> sc[p].lfi,
                   code |-> code, offset |-> offset,
                   pushed |-> sc[p].pushed])]
    /\ sc' = [sc EXCEPT ![p] = Idle]

\* faulty variant: the offset after the last line the scanner returned
Tell_Consumed(fpos, start) == start

\* logFile.Seek(0, 1): the offset of the file, which is the offset after the
\* last byte read from it
Tell(fpos, start) == fpos

\* logFile.Seek(0, 1) succeeds: logScan returns the offset of the file, and
\* the handler answers 200 with it
logScan_Return(p) ==
    /\ ~crashed /\ sc[p].pc = "tell"
    /\ Finish(p, 200, Tell(sc[p].fpos, sc[p].start))
    /\ UNCHANGED <<logs, rejected, config, dom, budget, now, wpc, line, sinkFile,
                   sinkFileBytes, openSinks, sinkDir, accepted, crashed>>

\* logFile.Seek(0, 1) fails: logScan returns the error
logScan_TellFails(p) ==
    /\ ~crashed /\ sc[p].pc = "tell"
    /\ sc' = [sc EXCEPT ![p].pc = "report"]
    /\ UNCHANGED <<logs, rejected, config, dom, budget, now, hist, wpc, line, sinkFile,
                   sinkFileBytes, openSinks, sinkDir, accepted, crashed>>

\* faulty variant: the notice is written whatever the metadata
HasMetadata_Always(metadata) == TRUE

\* metadata != ""
HasMetadata(metadata) == metadata # <<>>

\* reportLoggingError(w, 500, err.Error(), lfi.EncodedLogLineMetadata) up to
\* its send, or, with empty metadata, up to the send of the activation record
reportLoggingError(p) ==
    LET s == sc[p]
    IN  /\ ~crashed /\ s.pc = "report"
        /\ sc' = [sc EXCEPT ![p] =
                    IF HasMetadata(s.lfi.EncodedLogLineMetadata)
                    THEN [@ EXCEPT !.pc = "sendError",
                                   !.out = syntheticLine(genericLogErrorMessage,
                                              now, s.lfi.EncodedLogLineMetadata)]
                    ELSE [@ EXCEPT !.pc = "sendActivationOnError",
                                   !.out = s.lfi.EncodedActivation]]
        /\ UNCHANGED <<logs, rejected, config, dom, budget, now, hist, wpc, line,
                       sinkFile, sinkFileBytes, openSinks, sinkDir, accepted, crashed>>

\* writeSyntheticLogLine(genericLogErrorMessage, metadata)
reportLoggingError_Send(p) ==
    LET s == sc[p]
    IN  /\ s.pc = "sendError"
        /\ Handover(p) /\ UNCHANGED hist
        /\ sc' = [sc EXCEPT ![p] =
                    [@ EXCEPT !.pc = "sendActivationOnError",
                              !.pushed = Pushed(s, "error"),
                              !.out = s.lfi.EncodedActivation]]

\* l.logSinkChannel <- lfi.EncodedActivation of the handler's error branch,
\* and its return (the response was 500)
ForwardLogsFromUserAction_SendActivation(p) ==
    LET s == sc[p]
    IN  /\ s.pc = "sendActivationOnError"
        /\ Handover(p)
        /\ hist' = [hist EXCEPT ![p] = Append(@,
                      [container |-> s.container, lfi |-> s.lfi,
                       code |-> 500, offset |-> 0,
                       pushed |-> Pushed(s, "activation")])]
        /\ sc' = [sc EXCEPT ![p] = Idle]

\* logLine[:logLineLen-1] of an empty line panics: the handler goroutine
\* unwinds (net/http recovers it) and the request gets no response
logScan_Panic(p) ==
    /\ ~crashed /\ sc[p].pc = "panic"
    /\ Finish(p, 0, 0)
    /\ UNCHANGED <<logs, rejected, config, dom, budget, now, wpc, line, sinkFile,
                   sinkFileBytes, openSinks, sinkDir, accepted, crashed>>

\* ---------------------------------------------------------------- logWriter
\* os.Create(name): a new empty file at the end of the directory, or the file
\* of that name truncated to no content
CreateFile(dir, name) ==
    IF \E i \in 1..Len(dir) : dir[i].name = name
    THEN [i \in 1..Len(dir) |->
             IF dir[i].name = name THEN [dir[i] EXCEPT !.lines = <<>>] ELSE dir[i]]
    ELSE Append(dir, [name |-> name, lines |-> <<>>])

\* fmt.Fprintln(sinkFile, line) on the file of that name
AppendLine(dir, name, l) ==
    [i \in 1..Len(dir) |->
        IF dir[i].name = name THEN [dir[i] EXCEPT !.lines = Append(@, l)]
        ELSE dir[i]]

\* the name of a sink file created at time t: userlogs-<t>.log
SinkName(t) == t

\* sinkFile == nil: os.Create succeeds
logWriter_Create ==
    /\ ~crashed /\ wpc = "create"
    /\ sinkDir' = CreateFile(sinkDir, SinkName(now))
    /\ sinkFile' = SinkName(now)
    /\ sinkFileBytes' = 0
    /\ openSinks' = openSinks + 1
    /\ wpc' = "write"
    /\ UNCHANGED <<logs, rejected, config, dom, budget, now, sc, hist, line, accepted,
                   crashed>>

\* has the sink file grown past the threshold
Rotates(bytes, size) == bytes > size

\* fmt.Fprintln succeeds; the byte count and the rotation check
logWriter_Write ==
    LET bytesWritten == Len(line) + 1
    IN  /\ ~crashed /\ wpc = "write"
        /\ sinkDir' = AppendLine(sinkDir, sinkFile, line)
        /\ sinkFileBytes' = sinkFileBytes + bytesWritten
        /\ sinkFile' = IF Rotates(sinkFileBytes + bytesWritten, config.LogSinkSize)
                       THEN Nil ELSE sinkFile
        /\ openSinks' = IF Rotates(sinkFileBytes + bytesWritten, config.LogSinkSize)
                        THEN openSinks - 1 ELSE openSinks
        /\ wpc' = "recv"
        /\ line' = <<>>
        /\ UNCHANGED <<logs, rejected, config, dom, budget, now, sc, hist, accepted,
                       crashed>>

\* os.Create or fmt.Fprintln fails: panic(err) ends the process
logWriter_Panic ==
    /\ ~crashed /\ wpc \in {"create", "write"}
    /\ crashed' = TRUE
    /\ UNCHANGED <<logs, rejected, config, dom, budget, now, sc, hist, wpc, line,
                   sinkFile, sinkFileBytes, openSinks, sinkDir, accepted>>

\* the clock advances
Tick ==
    /\ ~crashed /\ now < MaxTime
    /\ now' = now + 1
    /\ UNCHANGED <<logs, rejected, config, dom, budget, sc, hist, wpc, line, sinkFile,
                   sinkFileBytes, openSinks, sinkDir, accepted, crashed>>

\* ------------------------------------------------------------ specification
\* NewLogForwardHandler: the writer waits for its first line, no sink file
InitHandler ==
    /\ now = 0
    /\ sc = [p \in Procs |-> Idle]
    /\ hist = [p \in Procs |-> <<>>]
    /\ rejected = [p \in Procs |-> <<>>]
    /\ wpc = "recv" /\ line = <<>> /\ sinkFile = Nil /\ sinkFileBytes = 0
    /\ openSinks = 0
    /\ sinkDir = <<>> /\ accepted = <<>> /\ crashed = FALSE

\* two handlers serve one request each, concurrently
Init ==
    /\ InitHandler
    /\ logs = [c \in Containers |->
                 IF c = "c1" THEN Join(<<ContentA, ContentA>>)
                             ELSE Join(<<EmptyLine>>)]
    /\ config \in {[LogSinkSize |-> t] : t \in {0, SmallSink, BigSink}}
    /\ dom = [containers |-> Containers, offsets |-> {0},
              limits |-> {SmallLimit}, sentinelled |-> BOOLEAN,
              metadatas |-> {<<"m">>}]
    /\ budget = [p \in Procs |-> 1]

\* one handler serves one request, on any file and with any cursor
InitScan ==
    /\ InitHandler
    /\ \E f \in LogFiles : logs = [c \in Containers |->
                                      IF c = "c1" THEN f ELSE NoFile]
    /\ config = [LogSinkSize |-> SmallSink]
    /\ dom = [containers |-> Containers, offsets |-> (-1)..(MaxFileLen + 1),
              limits |-> SizeLimits, sentinelled |-> BOOLEAN,
              metadatas |-> Metadatas]
    /\ budget = [p \in Procs |-> IF p = 1 THEN 1 ELSE 0]

\* one handler serves MaxRequests requests, one after the other, each resuming
\* where the one before it ended
InitResume ==
    /\ InitHandler
    /\ \E f \in LogFiles : logs = [c \in Containers |->
                                        IF c = "c1" THEN f ELSE NoFile]
    /\ config = [LogSinkSize |-> BigSink]
    /\ dom = [containers |-> {"c1"}, offsets |-> {0},
              limits |-> {SmallLimit}, sentinelled |-> BOOLEAN,
              metadatas |-> {<<"m">>}]
    /\ budget = [p \in Procs |-> IF p = 1 THEN MaxRequests ELSE 0]

\* one handler serves one request from offset 0, on any file whose lines may
\* hold the marker text inside a record
InitSentinel ==
    /\ InitHandler
    /\ \E f \in SentinelFiles : logs = [c \in Containers |->
                                           IF c = "c1" THEN f ELSE NoFile]
    /\ config = [LogSinkSize |-> SmallSink]
    /\ dom = [containers |-> Containers, offsets |-> {0},
              limits |-> SizeLimits, sentinelled |-> BOOLEAN,
              metadatas |-> {<<"m">>}]
    /\ budget = [p \in Procs |-> IF p = 1 THEN 1 ELSE 0]

\* two handlers serve one request each, concurrently, into a small sink
InitFair ==
    /\ InitHandler
    /\ logs = [c \in Containers |->
                 IF c = "c1" THEN Join(<<ContentA, ContentA>>)
                             ELSE Join(<<EmptyLine>>)]
    /\ config = [LogSinkSize |-> SmallSink]
    /\ dom = [containers |-> Containers, offsets |-> {0},
              limits |-> {SmallLimit}, sentinelled |-> BOOLEAN,
              metadatas |-> {<<"m">>}]
    /\ budget = [p \in Procs |-> 1]

Next ==
    \/ \E p \in Procs : ForwardLogsFromUserAction_BadRequest(p)
    \/ \E p \in Procs : ForwardLogsFromUserAction(p)
    \/ \E p \in Procs : logScan_Open(p)
    \/ \E p \in Procs : logScan_Read(p)
    \/ \E p \in Procs : logScan_Line(p)
    \/ \E p \in Procs : logScan_SendLine(p)
    \/ \E p \in Procs : logScan_SendTruncated(p)
    \/ \E p \in Procs : logScan_AfterLoop(p)
    \/ \E p \in Procs : logScan_SendActivation(p)
    \/ \E p \in Procs : logScan_Return(p)
    \/ \E p \in Procs : logScan_TellFails(p)
    \/ \E p \in Procs : logScan_Panic(p)
    \/ \E p \in Procs : reportLoggingError(p)
    \/ \E p \in Procs : reportLoggingError_Send(p)
    \/ \E p \in Procs : ForwardLogsFromUserAction_SendActivation(p)
    \/ logWriter_Create
    \/ logWriter_Write
    \/ logWriter_Panic
    \/ Tick

Spec == Init /\ [][Next]_vars
SpecScan == InitScan /\ [][Next]_vars
SpecResume == InitResume /\ [][Next]_vars
SpecSentinel == InitSentinel /\ [][Next]_vars

\* ------------------------------------------------------- terms of the claims
\* the lines of all sink files, files in creation order, lines in file order
Persisted == Flatten([i \in 1..Len(sinkDir) |-> sinkDir[i].lines])

\* handler p is at a send on logSinkChannel
SendPcs == {"sendLine", "sendTruncated", "sendActivation", "sendError",
            "sendActivationOnError"}

\* the send handler p is at goes through
Push(p) ==
    \/ logScan_SendLine(p)
    \/ logScan_SendTruncated(p)
    \/ logScan_SendActivation(p)
    \/ reportLoggingError_Send(p)
    \/ ForwardLogsFromUserAction_SendActivation(p)

\* The goroutines are scheduled fairly: a handler or the writer that can take
\* its next step takes it, and a sender that can again and again hand its line
\* to the writer does so (the channel serves its waiting senders in turn).
\* Neither a failure of the sink file nor a new request is ever due.
Fairness ==
    /\ \A p \in Procs :
          /\ WF_vars(logScan_Open(p))
          /\ WF_vars(logScan_Read(p))
          /\ WF_vars(logScan_Line(p))
          /\ WF_vars(logScan_AfterLoop(p))
          /\ WF_vars(logScan_Return(p) \/ logScan_TellFails(p))
          /\ WF_vars(logScan_Panic(p))
          /\ WF_vars(reportLoggingError(p))
          /\ SF_vars(Push(p))
    /\ WF_vars(logWriter_Create)
    /\ WF_vars(logWriter_Write)

SpecFair == InitFair /\ [][Next]_vars /\ Fairness

\* the lines of one kind a request pushed
OfKind(pushed, kind) == SelectSeq(pushed, LAMBDA e : e.kind = kind)
LinesOf(pushed) == [i \in 1..Len(pushed) |-> pushed[i].line]

\* the completed requests
Completed == {<<p, i>> : p \in Procs, i \in 1..(MaxRequests + 1)}
                 \cap {<<p, i>> \in Procs \X Nat : i \in 1..Len(hist[p])}
Rec(r) == hist[r[1]][r[2]]

\* bytes of a sink file: every line and its newline
RECURSIVE FileBytes(_)
FileBytes(ls) == IF ls = <<>> THEN 0 ELSE Len(Head(ls)) + 1 + FileBytes(Tail(ls))

\* the lines of a byte sequence: split at the newlines, a last line without
\* newline included
RECURSIVE Split(_)
Split(b) ==
    IF b = <<>> THEN <<>>
    ELSE LET idx == {i \in 1..Len(b) : b[i] = NL}
         IN  IF idx = {} THEN <<b>>
             ELSE LET i == CHOOSE k \in idx : \A j \in idx : k <= j
                  IN  <<SubSeq(b, 1, i - 1)>> \o Split(SubSeq(b, i + 1, Len(b)))

\* the lines a completed request had before it: those of its container's file
\* from its lastOffset on
FileOf(rec) == logs[rec.container]
LinesOf_(f, off) == IF off < 0 THEN <<>> ELSE Split(SubSeq(f, off + 1, Len(f)))
Lines(rec) == LinesOf_(FileOf(rec), rec.lfi.LastOffset)

\* a line that holds the sentinel marker text
IsMarker(l) == Contains(l, logSentinelLine)
\* every line that holds the marker text is the marker text
Unambiguous(ls) == \A i \in 1..Len(ls) : IsMarker(ls[i]) => ls[i] = logSentinelLine
\* a line the request forwards as content
IsContent(rec, l) == ~(rec.lfi.SentinelledLogs /\ IsMarker(l))

RECURSIVE SumLen(_)
SumLen(ls) == IF ls = <<>> THEN 0 ELSE Len(Head(ls)) + SumLen(Tail(ls))

\* the content lines among the first n lines, and their bytes
ContentIn(rec, ls, n) == SelectSeq(SubSeq(ls, 1, n), LAMBDA l : IsContent(rec, l))
ContentBytes(rec, ls, n) == SumLen(ContentIn(rec, ls, n))
MarkersIn(ls, n) == Len(SelectSeq(SubSeq(ls, 1, n), IsMarker))

\* a content line with the metadata appended: its closing brace replaced by
\* ",<metadata>}"
Annotated(l, md) == SubSeq(l, 1, Len(l) - 1) \o <<",">> \o md \o <<"}">>
AnnotatedAll(ls, md) == [i \in 1..Len(ls) |-> Annotated(ls[i], md)]

IsPrefix(a, b) == Len(a) <= Len(b) /\ SubSeq(b, 1, Len(a)) = a
Kinds(pushed) == [i \in 1..Len(pushed) |-> pushed[i].kind]
ContentPushed(rec) == LinesOf(OfKind(rec.pushed, "content"))
Truncated(rec) == OfKind(rec.pushed, "truncated") # <<>>

\* ------------------------------------------------------------------- claims

\* C1: whenever the writer has written every line it received and the process
\* has not crashed, the lines of the sink files (files in creation order, lines
\* in file order) are exactly the accepted lines in acceptance order.
C1_PersistedIsAccepted ==
    (~crashed /\ wpc = "recv") => Persisted = accepted

\* C2: a handler that is at a send on the forwarding queue can complete the
\* send in the current state, whatever the sink writer is doing.
C2_PushNeverWaits ==
    \A p \in Procs :
        (~crashed /\ sc[p].pc \in SendPcs) => ENABLED Push(p)

\* C3: every request whose scan returned to the handler (with an offset or with
\* an error) pushed its activation record exactly once.
C3_ActivationOnce ==
    \A r \in Completed :
        Rec(r).code \in {200, 500}
            => Len(OfKind(Rec(r).pushed, "activation")) = 1

\* C10: the file the writer opens for the next line after a rotation is a new
\* file of the directory, the files already there keep their content, and no
\* file grows beyond the threshold by more than its last line.
C10_RotationCreatesDistinctFile ==
    [][ (wpc = "create" /\ wpc' = "write")
          => /\ Len(sinkDir') = Len(sinkDir) + 1
             /\ SubSeq(sinkDir', 1, Len(sinkDir)) = sinkDir
             /\ \A i \in 1..Len(sinkDir) :
                   LET ls == sinkDir[i].lines
                   IN  ls # <<>> =>
                         FileBytes(SubSeq(ls, 1, Len(ls) - 1)) <= config.LogSinkSize
      ]_vars

\* C5: a sentinel-mode scan from offset 0, with a sufficient sizeLimit, of a
\* file of content lines followed by exactly two sentinel lines pushes each
\* content line once with the metadata appended, in order, no sentinel line,
\* then the activation record; when it returns, it returns the length of the
\* file as the resume offset; and it does not abort.
SentinelTerminated(rec) ==
    /\ FileOf(rec) # NoFile
    /\ rec.lfi.LastOffset = 0 /\ rec.lfi.SentinelledLogs
    /\ \E k \in 0..(MaxLines + 1) :
          Split(FileOf(rec)) = [i \in 1..k |-> ContentA]
                                  \o <<logSentinelLine, logSentinelLine>>
    /\ SumLen(Split(FileOf(rec))) - 2 * Len(logSentinelLine) <= rec.lfi.SizeLimit

C5_SentinelTermination ==
    \A r \in Completed :
        LET rec == Rec(r)
            content == SelectSeq(Split(FileOf(rec)), LAMBDA l : l = ContentA)
            expected == AnnotatedAll(content, rec.lfi.EncodedLogLineMetadata)
                            \o <<rec.lfi.EncodedActivation>>
        IN  SentinelTerminated(rec) =>
              /\ rec.code # 0
              /\ IsPrefix(expected, LinesOf(rec.pushed))
              /\ Kinds(SubSeq(rec.pushed, 1, Len(expected)))
                   = [i \in 1..Len(content) |-> "content"] \o <<"activation">>
              /\ rec.code = 200 =>
                   /\ LinesOf(rec.pushed) = expected
                   /\ rec.offset = Len(FileOf(rec))

C5_Witness ==
    \E r \in Completed :
        /\ SentinelTerminated(Rec(r)) /\ Rec(r).code = 200
        /\ Len(ContentPushed(Rec(r))) >= 1
        /\ Rec(r).lfi.EncodedLogLineMetadata # <<>>

\* C6: a sentinel-mode scan that reaches the end of the file having seen fewer
\* than two sentinel lines, without exceeding sizeLimit, has pushed every
\* content line it read, pushes no truncation notice, pushes the activation
\* record last, and is answered with the failure status (no resume offset).
MissesSentinel(rec) ==
    /\ FileOf(rec) # NoFile
    /\ rec.lfi.LastOffset >= 0 /\ rec.lfi.SentinelledLogs
    /\ Unambiguous(Lines(rec))
    /\ \A i \in 1..Len(Lines(rec)) : Lines(rec)[i] # <<>>
    /\ MarkersIn(Lines(rec), Len(Lines(rec))) < 2
    /\ ContentBytes(rec, Lines(rec), Len(Lines(rec))) <= rec.lfi.SizeLimit

C6_MissingSentinel ==
    \A r \in Completed :
        LET rec == Rec(r)
            ls == Lines(rec)
        IN  MissesSentinel(rec) =>
              /\ rec.code = 500
              /\ ContentPushed(rec)
                   = AnnotatedAll(ContentIn(rec, ls, Len(ls)),
                                  rec.lfi.EncodedLogLineMetadata)
              /\ ~Truncated(rec)
              /\ Len(OfKind(rec.pushed, "activation")) = 1
              /\ rec.pushed[Len(rec.pushed)]
                   = [kind |-> "activation", line |-> rec.lfi.EncodedActivation]

C6_Witness ==
    \E r \in Completed :
        /\ MissesSentinel(Rec(r)) /\ Rec(r).code = 500
        /\ MarkersIn(Lines(Rec(r)), Len(Lines(Rec(r)))) = 1
        /\ Len(ContentPushed(Rec(r))) >= 1

\* C7: when the content bytes first exceed sizeLimit L at line k (before two
\* sentinels were seen, in sentinel mode), the scan pushes the content lines
\* among lines 1..k and no later one, then exactly one truncation notice that
\* names L, then the activation record; it does not abort, and when it returns
\* it returns the length of the file as the resume offset, in sentinel mode too.
ExceedsAt(rec, k) ==
    /\ FileOf(rec) # NoFile /\ rec.lfi.LastOffset >= 0
    /\ k \in 1..Len(Lines(rec))
    /\ rec.lfi.SentinelledLogs => Unambiguous(Lines(rec))
    /\ \A i \in 1..k : Lines(rec)[i] # <<>>
    /\ IsContent(rec, Lines(rec)[k])
    /\ rec.lfi.SentinelledLogs => MarkersIn(Lines(rec), k) < 2
    /\ ContentBytes(rec, Lines(rec), k) > rec.lfi.SizeLimit
    /\ ContentBytes(rec, Lines(rec), k - 1) <= rec.lfi.SizeLimit

C7_Truncation ==
    \A r \in Completed :
        LET rec == Rec(r)
            ls == Lines(rec)
        IN  \A k \in 1..Len(ls) :
              ExceedsAt(rec, k) =>
                LET content == AnnotatedAll(ContentIn(rec, ls, k),
                                            rec.lfi.EncodedLogLineMetadata)
                    n == Len(content)
                IN  /\ rec.code # 0
                    /\ ContentPushed(rec) = content
                    /\ Len(rec.pushed) >= n + 2
                    /\ Kinds(SubSeq(rec.pushed, 1, n + 2))
                         = [i \in 1..n |-> "content"] \o <<"truncated", "activation">>
                    /\ Len(OfKind(rec.pushed, "truncated")) = 1
                    /\ Contains(rec.pushed[n + 1].line,
                                <<"truncated", ToString(rec.lfi.SizeLimit)>>)
                    /\ rec.pushed[n + 2].line = rec.lfi.EncodedActivation
                    /\ rec.code = 200 =>
                         /\ Len(rec.pushed) = n + 2
                         /\ rec.offset = Len(FileOf(rec))

C7_Witness ==
    \E r \in Completed :
        /\ Rec(r).code = 200 /\ Rec(r).lfi.SentinelledLogs
        /\ ExceedsAt(Rec(r), 2)
        /\ Len(Lines(Rec(r))) > 2

\* C8: a non-sentinel scan of a file without sentinel markers, from a
\* lastOffset inside the file and with a sizeLimit the content does not
\* exceed, returns the length of the file as the resume offset and has pushed
\* every non-empty line between lastOffset and the end of the file exactly
\* once, in order, with the metadata appended (unless the final offset could
\* not be determined).
PlainToEof(rec) ==
    /\ FileOf(rec) # NoFile
    /\ ~rec.lfi.SentinelledLogs
    /\ rec.lfi.LastOffset \in 0..Len(FileOf(rec))
    /\ MarkersIn(Split(FileOf(rec)), Len(Split(FileOf(rec)))) = 0
    /\ SumLen(Lines(rec)) <= rec.lfi.SizeLimit

NonEmpty(ls) == SelectSeq(ls, LAMBDA l : l # <<>>)

C8_PlainScanToEof ==
    \A r \in Completed :
        LET rec == Rec(r)
        IN  (PlainToEof(rec) /\ rec.code # 500) =>
              /\ rec.code = 200
              /\ rec.offset = Len(FileOf(rec))
              /\ ContentPushed(rec)
                   = AnnotatedAll(NonEmpty(Lines(rec)),
                                  rec.lfi.EncodedLogLineMetadata)

\* the requests of handler p resume one another: each succeeded in sentinel
\* mode without truncation, the first started at offset 0, each later one at
\* the offset the one before it returned, and the last one returned the end
\* of the file
ResumedToEof(p) ==
    LET h == hist[p]
    IN  /\ h # <<>>
        /\ \A i \in 1..Len(h) :
              /\ h[i].code = 200 /\ h[i].lfi.SentinelledLogs /\ ~Truncated(h[i])
              /\ h[i].container = "c1"
              /\ h[i].lfi.LastOffset = IF i = 1 THEN 0 ELSE h[i - 1].offset
        /\ h[Len(h)].offset = Len(logs["c1"])

AllContentPushed(p) ==
    Flatten([i \in 1..Len(hist[p]) |-> ContentPushed(hist[p][i])])

\* C4: when sentinel-mode scans that resume one another (none truncated) have
\* come to the end of the file, every content line of the file was pushed at
\* least once: they pushed at least as many content lines as the file has.
C4_AtLeastOnce ==
    \A p \in Procs :
        ResumedToEof(p) =>
            Len(AllContentPushed(p))
                >= Len(SelectSeq(Split(logs["c1"]),
                                 LAMBDA l : ~IsMarker(l) /\ l # <<>>))

\* handler p's request i + 1 resumes its request i
Resumes(p, i) ==
    /\ i + 1 <= Len(hist[p])
    /\ hist[p][i].code = 200
    /\ hist[p][i + 1].container = hist[p][i].container
    /\ hist[p][i + 1].lfi.LastOffset = hist[p][i].offset

\* C9 as claimed: a scan that resumes at the offset the scan before it
\* returned (the file is never appended to) and is answered pushes no content
\* line.
C9_ResumeIdempotent ==
    \A p \in Procs : \A i \in 1..MaxRequests :
        (Resumes(p, i) /\ hist[p][i + 1].code # 0)
            => ContentPushed(hist[p][i + 1]) = <<>>

\* C9 as amended: it pushes no content line when the offset the scan before it
\* returned is the end of the file.
C9_ResumeIdempotentAtEof ==
    \A p \in Procs : \A i \in 1..MaxRequests :
        (Resumes(p, i) /\ hist[p][i].offset >= Len(FileOf(hist[p][i])))
            => ContentPushed(hist[p][i + 1]) = <<>>

C9_Witness ==
    \E p \in Procs :
        /\ Resumes(p, 1)
        /\ hist[p][1].offset = Len(FileOf(hist[p][1]))
        /\ Len(ContentPushed(hist[p][1])) >= 2
        /\ hist[p][2].code = 200
        /\ ContentPushed(hist[p][2]) = <<>>

\* C11 as claimed: as long as the process runs, exactly one sink file is open.
C11_ExactlyOneOpen ==
    ~crashed => openSinks = 1

\* C11 as amended: at most one sink file is open, one is open exactly when the
\* writer holds one, the writer holds one whenever it writes a line, and it
\* creates one only when it holds none.
C11_AtMostOneOpen ==
    /\ openSinks <= 1
    /\ ~crashed => (openSinks = 1 <=> sinkFile # Nil)
    /\ (~crashed /\ wpc = "write") => (sinkFile # Nil /\ openSinks = 1)
    /\ (~crashed /\ wpc = "create") => (sinkFile = Nil /\ openSinks = 0)

C11_Witness ==
    /\ ~crashed /\ wpc = "write" /\ openSinks = 1
    /\ Len(sinkDir) >= 2 /\ sinkDir[1].lines # <<>>

StaleCursor(rec) ==
    /\ FileOf(rec) # NoFile
    /\ rec.lfi.LastOffset > Len(FileOf(rec)) \/ rec.lfi.LastOffset < 0

\* C13: a request with a stale cursor is answered with the failure status (no
\* resume offset) and has pushed no content line.
C13_StaleCursor ==
    \A r \in Completed :
        StaleCursor(Rec(r)) =>
            /\ Rec(r).code = 500
            /\ ContentPushed(Rec(r)) = <<>>

\* the log file of the request's container could not be opened
SourceUnavailable(rec) == FileOf(rec) = NoFile

\* C14 as claimed: a request whose log file cannot be opened is answered with
\* the failure status and has pushed no line at all.
C14_NothingForwarded ==
    \A r \in Completed :
        SourceUnavailable(Rec(r)) =>
            /\ Rec(r).code = 500
            /\ Rec(r).pushed = <<>>

\* C14 as amended: it is answered with the failure status and has pushed no
\* content line and no truncation notice: it has pushed the generic error
\* notice, when its metadata is not empty, and then its activation record.
C14_NoContentForwarded ==
    \A r \in Completed :
        LET rec == Rec(r)
        IN  SourceUnavailable(rec) =>
              /\ rec.code = 500
              /\ ContentPushed(rec) = <<>>
              /\ Kinds(rec.pushed)
                   = IF rec.lfi.EncodedLogLineMetadata # <<>>
                     THEN <<"error", "activation">> ELSE <<"activation">>
              /\ rec.pushed[Len(rec.pushed)].line = rec.lfi.EncodedActivation

C14_Witness ==
    \E r \in Completed :
        /\ SourceUnavailable(Rec(r)) /\ Rec(r).code = 500
        /\ Rec(r).lfi.EncodedLogLineMetadata # <<>>
        /\ Len(Rec(r).pushed) = 2

\* the generic error notices a request pushed
ErrorNotices(rec) == OfKind(rec.pushed, "error")

\* C15: a request whose scan returned an error and whose metadata is not
\* empty pushed exactly one error notice, the generic one with the metadata
\* of the request, before its activation record; every other request (the
\* scan succeeded, or the metadata is empty) pushed none.
C15_ErrorNotice ==
    \A r \in Completed :
        LET rec == Rec(r)
            md == rec.lfi.EncodedLogLineMetadata
        IN  IF rec.code = 500 /\ md # <<>>
            THEN /\ Len(ErrorNotices(rec)) = 1
                 /\ Contains(ErrorNotices(rec)[1].line, genericLogErrorMessage)
                 /\ Contains(ErrorNotices(rec)[1].line, <<",">> \o md \o <<"}">>)
                 /\ Kinds(SubSeq(rec.pushed, Len(rec.pushed) - 1, Len(rec.pushed)))
                      = <<"error", "activation">>
            ELSE ErrorNotices(rec) = <<>>

C15_Witness ==
    \E r \in Completed :
        /\ Rec(r).code = 500 /\ Rec(r).lfi.EncodedLogLineMetadata # <<>>
        /\ MissesSentinel(Rec(r))
        /\ Len(ContentPushed(Rec(r))) >= 1
        /\ Len(ErrorNotices(Rec(r))) = 1

\* a line is taken for a sentinel: by equality with the marker text (exact),
\* or by holding the marker text
Withheld(exact, l) == IF exact THEN l = logSentinelLine ELSE IsMarker(l)

\* the lines a sentinel-mode scan consumes: up to the second line taken for a
\* sentinel
Consumed(ls, exact) ==
    LET idx == {k \in 1..Len(ls) :
                  Len(SelectSeq(SubSeq(ls, 1, k),
                                LAMBDA l : Withheld(exact, l))) = 2}
    IN  IF idx = {} THEN ls
        ELSE SubSeq(ls, 1, CHOOSE k \in idx : \A j \in idx : k <= j)

\* the lines the request forwards as content
Forwarded(rec, exact) ==
    IF rec.lfi.SentinelledLogs
    THEN SelectSeq(Consumed(Lines(rec), exact), LAMBDA l : ~Withheld(exact, l))
    ELSE Lines(rec)

\* a request from offset 0 on a file without empty lines whose bytes do not
\* exceed the size limit
Classifiable(rec) ==
    /\ FileOf(rec) # NoFile /\ rec.lfi.LastOffset = 0
    /\ \A i \in 1..Len(Lines(rec)) : Lines(rec)[i] # <<>>
    /\ SumLen(Lines(rec)) <= rec.lfi.SizeLimit

\* the request pushed the content that classification gives, and failed when
\* fewer than two lines were taken for sentinels
Classified(rec, exact) ==
    /\ ContentPushed(rec)
         = AnnotatedAll(Forwarded(rec, exact), rec.lfi.EncodedLogLineMetadata)
    /\ (/\ rec.lfi.SentinelledLogs
        /\ Len(SelectSeq(Lines(rec), LAMBDA l : Withheld(exact, l))) < 2)
           => rec.code = 500

\* C16 as claimed: in sentinel mode exactly the lines that are the marker
\* text are withheld and counted; every other line, also one that holds the
\* marker text inside, is pushed as content; without sentinel mode every line
\* is pushed as content.
C16_ExactClassification ==
    \A r \in Completed : Classifiable(Rec(r)) => Classified(Rec(r), TRUE)

\* C16 as amended: in sentinel mode exactly the lines that hold the marker
\* text are withheld and counted; every other line is pushed as content;
\* without sentinel mode every line is pushed as content.
C16_SubstringClassification ==
    \A r \in Completed : Classifiable(Rec(r)) => Classified(Rec(r), FALSE)

C16_Witness ==
    \E r \in Completed :
        /\ Classifiable(Rec(r)) /\ Rec(r).lfi.SentinelledLogs
        /\ Rec(r).code = 200
        /\ Lines(Rec(r)) = <<ContentA, WrappedSentinel, WrappedSentinel>>
        /\ Len(ContentPushed(Rec(r))) = 1

\* C17: no scan is aborted: no handler is unwinding from a panic in logScan,
\* and every request that is over was answered (with an offset or an error).
C17_ScanReturns ==
    /\ \A p \in Procs : sc[p].pc # "panic"
    /\ \A r \in Completed : Rec(r).code # 0

\* a is b with some of its elements left out
RECURSIVE IsSubSeq(_, _)
IsSubSeq(a, b) ==
    IF a = <<>> THEN TRUE
    ELSE IF b = <<>> THEN FALSE
    ELSE IF Head(a) = Head(b) THEN IsSubSeq(Tail(a), Tail(b))
    ELSE IsSubSeq(a, Tail(b))

\* content lines, then at most one truncation notice, then at most one error
\* notice, then the activation record
InEmissionOrder(kinds) ==
    \E n \in 0..Len(kinds) :
        /\ \A i \in 1..n : kinds[i] = "content"
        /\ SubSeq(kinds, n + 1, Len(kinds))
              \in {<<"activation">>, <<"truncated", "activation">>,
                   <<"error", "activation">>,
                   <<"truncated", "error", "activation">>}

\* C18: the lines of every answered request are among the accepted lines in
\* the order the request pushed them (the lines of the other handler between
\* them), and that order is: content lines, then any truncation or error
\* notice, then the activation record as the last line.
C18_EmissionOrder ==
    \A r \in Completed :
        Rec(r).code # 0 =>
            /\ IsSubSeq(LinesOf(Rec(r).pushed), accepted)
            /\ InEmissionOrder(Kinds(Rec(r).pushed))

\* the line handler p is sending is accepted, unless the process crashes
PushAccepted(p) ==
    \A n \in 0..(MaxLines + 3) :
        (sc[p].pc \in SendPcs /\ Len(sc[p].pushed) = n)
            ~> (crashed \/ Len(sc[p].pushed) > n \/ sc[p].pc = "idle")

\* the line the writer has accepted is written, unless the process crashes
AcceptedWritten == (wpc \in {"create", "write"}) ~> (crashed \/ wpc = "recv")

\* the request of handler p comes to its end, unless the process crashes
ScanEnds(p) == (sc[p].pc # "idle") ~> (crashed \/ sc[p].pc = "idle")

\* the scan of handler p returns to the handler, which answers the request,
\* unless the process crashes
ScanReturns(p) ==
    (sc[p].pc # "idle")
        ~> (crashed \/ (hist[p] # <<>> /\ hist[p][Len(hist[p])].code # 0))

\* C19: under fair scheduling and as long as the sink file does not fail,
\* every line a handler is sending is accepted and then written to the sink
\* file, and every scan returns to its handler.
C19_PipelineLive ==
    /\ \A p \in Procs : PushAccepted(p) /\ ScanReturns(p)
    /\ AcceptedWritten

\* C20: a request is answered 400, without a scan, only when its body cannot
\* be read or is not JSON: no request with a JSON body of the LogForwardInfo
\* fields is among the rejected ones.
C20_RejectsOnlyMalformed ==
    \A p \in Procs : \A i \in 1..Len(rejected[p]) :
        rejected[p][i].body \in {"notJson", "unreadable"}

=============================================================================
